---- MODULE Spec2Model ----
(***************************************************************************)
(* Model of the crawl orchestration step (steps/etl/crawl_links.py) and of *)
(* the scroll-to-stability loop of BaseSeleniumCrawler                     *)
(* (llm_engineering/application/crawlers/base.py).                         *)
(*                                                                         *)
(* Spec          one run of crawl_links over a batch of links              *)
(* ScrollSpec    one call of BaseSeleniumCrawler.scroll_page               *)
(* FairScrollSpec ScrollSpec with the thread of scroll_page always running *)
(***************************************************************************)
EXTENDS Integers, Sequences, FiniteSets, TLC

VARIABLES
    \* ---- crawl_links ----
    links,              \* the `links` argument of crawl_links
    pc,                 \* position of the single thread inside crawl_links
    i,                  \* number of links the for loop has taken so far
    link,               \* loop variable `link`
    crawler,            \* local `crawler` of _crawl_link
    crawler_domain,     \* local `crawler_domain` of _crawl_link
    successfull_crawl,  \* first component of the tuple _crawl_link returned
    successfull_crawls, \* overall success counter
    metadata,           \* dict domain -> dict key -> int
    sessions,           \* browser sessions that are open
    tmpCount,           \* number of directories mkdtemp() has handed out
    output_metadata,    \* payloads given to add_output_metadata, in order
    crawled_links,      \* value returned by crawl_links (sequence of 0 or 1 lists)
    attempts,           \* history: <<position, outcome>> of every extract() call
    \* ---- scroll_page ----
    scroll_limit,       \* self.scroll_limit
    spc,                \* position inside scroll_page
    current_scroll,     \* local current_scroll
    last_height,        \* local last_height
    new_height,         \* local new_height
    scrolls,            \* history: number of scroll-to-bottom commands issued
    readings            \* history: the heights the driver returned, in order

crawlVars == <<links, pc, i, link, crawler, crawler_domain, successfull_crawl,
               successfull_crawls, metadata, sessions, tmpCount, output_metadata,
               crawled_links, attempts>>
scrollVars == <<scroll_limit, spc, current_scroll, last_height, new_height,
                scrolls, readings>>
vars == <<crawlVars, scrollVars>>

(***************************************************************************)
(* Bounds                                                                  *)
(***************************************************************************)
MaxLinks == 3
MaxScrollLimit == 6
MaxHeightSteps == 3
MaxCount == 9
MaxHist == 4

(***************************************************************************)
(* Program constants                                                       *)
(***************************************************************************)
DefaultScrollLimit == 5
RemoteDebuggingPort == 9226

None == "None"

(***************************************************************************)
(* Links of the batches.  A link is a string; what the program reads of    *)
(* it is its network location (urlparse(link).netloc) and what the         *)
(* dispatcher makes of it.                                                 *)
(***************************************************************************)
LinkedInLink == "https://www.linkedin.com/in/a"
MediumLink == "https://medium.com/p/b"
GithubLink == "https://github.com/u/r"
MalformedLink == "not a url"

LinkUniverse == {LinkedInLink, MediumLink, GithubLink, MalformedLink}

\* urlparse(link).netloc
Netloc(l) ==
    CASE l = LinkedInLink -> "www.linkedin.com"
      [] l = MediumLink -> "medium.com"
      [] l = GithubLink -> "github.com"
      [] OTHER -> ""

\* Dispatcher.resolve: fails (InvalidURLError) exactly on a malformed URL
ResolveFails(l) == l = MalformedLink

\* the extractor type the dispatcher resolves a link to
CrawlerType(l) ==
    CASE l = LinkedInLink -> "LinkedInCrawler"
      [] l = MediumLink -> "MediumCrawler"
      [] l = GithubLink -> "GithubCrawler"
      [] OTHER -> "CustomArticleCrawler"

\* the extractor types that own a browser session (BaseSeleniumCrawler)
IsSeleniumCrawler(t) == t \in {"LinkedInCrawler", "MediumCrawler"}

RECURSIVE SeqsUpTo(_, _)
SeqsUpTo(S, n) ==
    IF n = 0 THEN {<<>>}
    ELSE LET shorter == SeqsUpTo(S, n - 1)
         IN shorter \cup {Append(s, x) : s \in {t \in shorter : Len(t) = n - 1}, x \in S}

Batches == SeqsUpTo(LinkUniverse, MaxLinks)

(***************************************************************************)
(* Python helpers                                                          *)
(***************************************************************************)
\* int(bool): True + n = n + 1, False + n = n
BoolToInt(b) == IF b THEN 1 ELSE 0

\* metadata.get(domain, {}).get(key, 0)
MetaGet(m, d, k) ==
    IF d \in DOMAIN m /\ k \in DOMAIN m[d] THEN m[d][k] ELSE 0

\* m[d][k] = v for a dict m that has key d
MetaSet(m, d, k, v) ==
    [x \in DOMAIN m |->
        IF x = d THEN [y \in DOMAIN m[d] \cup {k} |-> IF y = k THEN v ELSE m[d][y]]
        ELSE m[x]]

EmptyDict == [x \in {} |-> 0]

\* BaseSeleniumCrawler.__init__: three fresh temporary directories, one fixed port
NewSession(n) ==
    [userDataDir |-> n + 1, dataPath |-> n + 2, diskCacheDir |-> n + 3,
     port |-> RemoteDebuggingPort]

(***************************************************************************)
(* crawl_links: the state after the set-up of lines 44-55                  *)
(***************************************************************************)
ScrollIdle ==
    /\ scroll_limit = DefaultScrollLimit
    /\ spc = "idle"
    /\ current_scroll = 0
    /\ last_height = 0
    /\ new_height = 0
    /\ scrolls = 0
    /\ readings = <<>>

Init ==
    /\ links \in Batches
    /\ pc = "for"
    /\ i = 0
    /\ link = None
    /\ crawler = None
    /\ crawler_domain = None
    /\ successfull_crawl = FALSE
    /\ successfull_crawls = 0
    /\ metadata = EmptyDict
    /\ sessions = {}
    /\ tmpCount = 0
    /\ output_metadata = <<>>
    /\ crawled_links = <<>>
    /\ attempts = <<>>
    /\ ScrollIdle

\* variant: the list is walked from its end
LoopLinkReversed(ls, n) == ls[Len(ls) - n]

\* the element the iterator of `for link in tqdm(links)` yields after n elements
LoopLink(ls, n) == ls[n + 1]

\* for link in tqdm(links): take the next link, or leave the loop
ForNext ==
    /\ pc = "for"
    /\ IF i < Len(links)
       THEN /\ i' = i + 1
            /\ link' = LoopLink(links, i)
            /\ pc' = "get_crawler"
       ELSE /\ pc' = "emit"
            /\ UNCHANGED <<i, link>>
    /\ UNCHANGED <<links, crawler, crawler_domain, successfull_crawl,
                   successfull_crawls, metadata, sessions, tmpCount,
                   output_metadata, crawled_links, attempts>>
    /\ UNCHANGED scrollVars

\* crawler = dispatcher.get_crawler(link), outside the try block: an error of
\* the dispatcher leaves _crawl_link and crawl_links.  Resolving a link to a
\* browser-backed extractor constructs it, which opens its session.
GetCrawler ==
    /\ pc = "get_crawler"
    /\ IF ResolveFails(link)
       THEN /\ pc' = "raised"
            /\ UNCHANGED <<crawler, sessions, tmpCount>>
       ELSE /\ crawler' = CrawlerType(link)
            /\ IF IsSeleniumCrawler(CrawlerType(link))
               THEN /\ sessions' = sessions \cup {NewSession(tmpCount)}
                    /\ tmpCount' = tmpCount + 3
               ELSE UNCHANGED <<sessions, tmpCount>>
            /\ pc' = "urlparse"
    /\ UNCHANGED <<links, i, link, crawler_domain, successfull_crawl,
                   successfull_crawls, metadata, output_metadata,
                   crawled_links, attempts>>
    /\ UNCHANGED scrollVars

\* crawler_domain = urlparse(link).netloc
UrlParse ==
    /\ pc = "urlparse"
    /\ crawler_domain' = Netloc(link)
    /\ pc' = "extract"
    /\ UNCHANGED <<links, i, link, crawler, successfull_crawl, successfull_crawls,
                   metadata, sessions, tmpCount, output_metadata, crawled_links,
                   attempts>>
    /\ UNCHANGED scrollVars

\* variant: no handler around extract()
ExceptNothing(outcome) == FALSE

\* except Exception: the errors of extract() the handler of _crawl_link catches
\* ("raise" stands for any error of extract(), a subclass of Exception)
ExceptException(outcome) == outcome = "raise"

\* variant: a failed extraction is attempted again
ExtractAgain == "extract"

\* where the handler of _crawl_link goes on: return (False, crawler_domain),
\* back in crawl_links
AfterExcept == "count"

\* try: crawler.extract(link=link, user=user) ... except Exception
\* extract() either returns or raises; _crawl_link returns (True, domain) or
\* (False, domain) and does nothing else with the crawler.
Extract ==
    /\ pc = "extract"
    /\ \E outcome \in {"ok", "raise"} :
        /\ attempts' = Append(attempts, <<i, outcome>>)
        /\ IF outcome = "ok"
           THEN /\ successfull_crawl' = TRUE
                /\ pc' = "count"
           ELSE IF ExceptException(outcome)
           THEN /\ successfull_crawl' = FALSE
                /\ pc' = AfterExcept
           ELSE /\ pc' = "raised"
                /\ UNCHANGED successfull_crawl
    /\ UNCHANGED <<links, i, link, crawler, crawler_domain, successfull_crawls,
                   metadata, sessions, tmpCount, output_metadata, crawled_links>>
    /\ UNCHANGED scrollVars

\* variant: every job is counted as a success
SuccessCountAlways(n, s) == n + 1

\* successfull_crawls + successfull_crawl
SuccessCount(n, s) == n + BoolToInt(s)

\* successfull_crawls += successfull_crawl
CountSuccess ==
    /\ pc = "count"
    /\ successfull_crawls' = SuccessCount(successfull_crawls, successfull_crawl)
    /\ pc' = "meta_init"
    /\ UNCHANGED <<links, i, link, crawler, crawler_domain, successfull_crawl,
                   metadata, sessions, tmpCount, output_metadata, crawled_links,
                   attempts>>
    /\ UNCHANGED scrollVars

\* variant: the record is reset at every update
MetaInitAlways(m, d) == [x \in DOMAIN m \cup {d} |-> IF x = d THEN EmptyDict ELSE m[x]]

\* if domain not in metadata: metadata[domain] = {}
MetaInitValue(m, d) ==
    IF d \notin DOMAIN m
    THEN [x \in DOMAIN m \cup {d} |-> IF x = d THEN EmptyDict ELSE m[x]]
    ELSE m

MetaInit ==
    /\ pc = "meta_init"
    /\ metadata' = MetaInitValue(metadata, crawler_domain)
    /\ pc' = "meta_successful"
    /\ UNCHANGED <<links, i, link, crawler, crawler_domain, successfull_crawl,
                   successfull_crawls, sessions, tmpCount, output_metadata,
                   crawled_links, attempts>>
    /\ UNCHANGED scrollVars

\* variant: successful is incremented for every job
MetaSuccessfulAlways(m, d, s) == MetaGet(m, d, "successful") + 1

\* metadata[domain]["successful"] = metadata.get(domain, {}).get("successful", 0) + successfull_crawl
MetaSuccessfulValue(m, d, s) == MetaGet(m, d, "successful") + BoolToInt(s)

MetaSuccessful ==
    /\ pc = "meta_successful"
    /\ metadata' = MetaSet(metadata, crawler_domain, "successful",
                           MetaSuccessfulValue(metadata, crawler_domain, successfull_crawl))
    /\ pc' = "meta_total"
    /\ UNCHANGED <<links, i, link, crawler, crawler_domain, successfull_crawl,
                   successfull_crawls, sessions, tmpCount, output_metadata,
                   crawled_links, attempts>>
    /\ UNCHANGED scrollVars

\* variant: total is set, not accumulated
MetaTotalRestart(m, d) == 1

\* metadata[domain]["total"] = metadata.get(domain, {}).get("total", 0) + 1
MetaTotalValue(m, d) == MetaGet(m, d, "total") + 1

\* the write of "total" and the return to the loop
MetaTotal ==
    /\ pc = "meta_total"
    /\ metadata' = MetaSet(metadata, crawler_domain, "total",
                           MetaTotalValue(metadata, crawler_domain))
    /\ pc' = "for"
    /\ UNCHANGED <<links, i, link, crawler, crawler_domain, successfull_crawl,
                   successfull_crawls, sessions, tmpCount, output_metadata,
                   crawled_links, attempts>>
    /\ UNCHANGED scrollVars

\* step_context.add_output_metadata(output_name="crawled_links", metadata=metadata)
Emit ==
    /\ pc = "emit"
    /\ output_metadata' = Append(output_metadata, metadata)
    /\ pc' = "return"
    /\ UNCHANGED <<links, i, link, crawler, crawler_domain, successfull_crawl,
                   successfull_crawls, metadata, sessions, tmpCount, crawled_links,
                   attempts>>
    /\ UNCHANGED scrollVars

\* variant: only the links whose extract() returned are returned
RECURSIVE SucceededLinks(_, _)
SucceededLinks(ls, as) ==
    IF as = <<>> THEN <<>>
    ELSE IF Head(as)[2] = "ok"
         THEN <<ls[Head(as)[1]]>> \o SucceededLinks(ls, Tail(as))
         ELSE SucceededLinks(ls, Tail(as))

ReturnSucceeded == SucceededLinks(links, attempts)

\* return links
ReturnValue == links

Return ==
    /\ pc = "return"
    /\ crawled_links' = <<ReturnValue>>
    /\ pc' = "done"
    /\ UNCHANGED <<links, i, link, crawler, crawler_domain, successfull_crawl,
                   successfull_crawls, metadata, sessions, tmpCount,
                   output_metadata, attempts>>
    /\ UNCHANGED scrollVars

Next ==
    \/ ForNext
    \/ GetCrawler
    \/ UrlParse
    \/ Extract
    \/ CountSuccess
    \/ MetaInit
    \/ MetaSuccessful
    \/ MetaTotal
    \/ Emit
    \/ Return

Spec == Init /\ [][Next]_vars

TypeOK ==
    /\ links \in Batches
    /\ pc \in {"for", "get_crawler", "urlparse", "extract", "count", "meta_init",
               "meta_successful", "meta_total", "emit", "return", "done", "raised"}
    /\ i \in 0..Len(links)
    /\ successfull_crawl \in BOOLEAN
    /\ successfull_crawls \in 0..Len(links)
    /\ DOMAIN metadata \subseteq {Netloc(l) : l \in LinkUniverse}
    /\ Len(output_metadata) <= 1
    /\ Len(crawled_links) <= 1

(***************************************************************************)
(* Properties of a run of crawl_links                                      *)
(***************************************************************************)
RECURSIVE SumOver(_, _, _)
SumOver(m, k, D) ==
    IF D = {} THEN 0
    ELSE LET d == CHOOSE x \in D : TRUE
         IN MetaGet(m, d, k) + SumOver(m, k, D \ {d})

\* sum of metadata[d][k] over all domains d
MetaSum(m, k) == SumOver(m, k, DOMAIN m)

HasOutcome(o) == \E k \in 1..Len(attempts) : attempts[k][2] = o

\* C1: an error raised by extract() on a link is caught and recorded as a failed
\* outcome of that link, and the loop goes on: extract() has been called once for
\* every link the loop has taken (in order), an error that leaves the run is never
\* one of extract(), the run can always take its next step, and when the loop is
\* left extract() has been called for all N links.
C1_ExtractFailureIsolated ==
    /\ \A k \in 1..Len(attempts) : attempts[k][1] = k
    /\ pc \in {"for", "emit", "return", "done"} => Len(attempts) = i
    /\ pc \in {"emit", "return", "done"} => Len(attempts) = Len(links)
    /\ pc = "raised" => Len(attempts) = i - 1
    /\ pc \in {"count", "meta_init", "meta_successful", "meta_total"} =>
          /\ Len(attempts) = i
          /\ successfull_crawl = (attempts[i][2] = "ok")
    /\ pc \notin {"done", "raised"} => ENABLED Next

C1_Witness ==
    /\ pc = "done"
    /\ Len(links) = 3
    /\ attempts[1][2] = "raise"
    /\ attempts[2][2] = "raise"
    /\ attempts[3][2] = "ok"

\* C2: a link the dispatcher fails to resolve is counted as a failed job (total
\* incremented, successful not), the error does not leave the run, and the run
\* goes on with the remaining links: the run never ends by an error, and between
\* two jobs every link taken so far has been counted once in total.
C2_ResolutionFailureCounted ==
    /\ pc # "raised"
    /\ pc = "for" => MetaSum(metadata, "total") = i

\* C3: the list crawl_links returns equals the input list: same length, same
\* elements, same order.
C3_ReturnsInputList ==
    pc = "done" => crawled_links = <<links>>

C3_Witness ==
    /\ pc = "done"
    /\ Len(crawled_links) = 1
    /\ Len(crawled_links[1]) = 3
    /\ HasOutcome("ok")
    /\ HasOutcome("raise")

SuccessfulLeTotal(m) ==
    \A d \in DOMAIN m :
        /\ 0 <= MetaGet(m, d, "successful")
        /\ MetaGet(m, d, "successful") <= MetaGet(m, d, "total")

CountersNeverDecrease ==
    \A d \in DOMAIN metadata :
        /\ d \in DOMAIN metadata'
        /\ MetaGet(metadata', d, "successful") >= MetaGet(metadata, d, "successful")
        /\ MetaGet(metadata', d, "total") >= MetaGet(metadata, d, "total")

\* C4 as stated: in every reachable state, also between the two counter writes of
\* one update, every domain record has 0 <= successful <= total, and no counter
\* ever decreases.
C4_SuccessfulLeTotalAlways ==
    /\ [](SuccessfulLeTotal(metadata))
    /\ [][CountersNeverDecrease]_vars

\* the domain record an update is in the middle of: "successful" is written,
\* "total" is not yet
MidUpdate(d) == pc = "meta_total" /\ d = crawler_domain

\* C4 (amended): in every reachable state every domain record has
\* 0 <= successful <= total, except that between the two counter writes of one
\* update the record being updated has successful <= total + 1; no counter ever
\* decreases.
C4_SuccessfulLeTotalBetweenUpdates ==
    /\ [](\A d \in DOMAIN metadata :
            /\ 0 <= MetaGet(metadata, d, "successful")
            /\ MetaGet(metadata, d, "successful")
                  <= MetaGet(metadata, d, "total") + BoolToInt(MidUpdate(d)))
    /\ [][CountersNeverDecrease]_vars

C4_Witness ==
    /\ pc = "for"
    /\ \E d \in DOMAIN metadata :
          /\ MetaGet(metadata, d, "total") = 3
          /\ MetaGet(metadata, d, "successful") = 2

\* C5: when a run returns, the sum of total over all domains equals the number of
\* input links, a link that occurs several times counted once per occurrence.
C5_TotalsSumToBatchSize ==
    pc = "done" => MetaSum(metadata, "total") = Len(links)

C5_Witness ==
    /\ pc = "done"
    /\ Len(links) = 3
    /\ links[1] = links[3]
    /\ links[2] # links[1]
    /\ HasOutcome("raise")
    /\ MetaSum(metadata, "total") = 3

\* C10: every browser session acquired by constructing a BaseSeleniumCrawler is
\* closed once its caller is done with it, on the success path and on the path
\* where extract() raises: no run of crawl_links returns with a session still
\* open.
C10_NoSessionLeftOpen ==
    pc = "done" => sessions = {}

\* the per-session resources of a browser session
SessionResources(s) ==
    {<<"dir", s.userDataDir>>, <<"dir", s.dataPath>>, <<"dir", s.diskCacheDir>>,
     <<"port", s.port>>}

\* C11: any two browser sessions that are alive at the same time have pairwise
\* disjoint per-session resources: no user-data directory, data path, disk-cache
\* directory or remote-debugging port is shared between two live sessions.
C11_SessionsIsolated ==
    \A s \in sessions : \A t \in sessions :
        s # t => SessionResources(s) \cap SessionResources(t) = {}

\* the extract() calls made for links of domain d whose outcome is in O
AttemptsAt(d, O) ==
    Cardinality({k \in 1..Len(attempts) :
                    Netloc(links[attempts[k][1]]) = d /\ attempts[k][2] \in O})

BetweenJobs == pc \in {"for", "emit", "return", "done"}

OtherRecordsUnchanged ==
    \A d \in DOMAIN metadata :
        d # crawler_domain => d \in DOMAIN metadata' /\ metadata'[d] = metadata[d]

\* what one step of the run does to the metrics
MetricsStep ==
    /\ pc = "meta_init" =>
          /\ DOMAIN metadata' = DOMAIN metadata \cup {crawler_domain}
          /\ OtherRecordsUnchanged
          /\ crawler_domain \in DOMAIN metadata =>
                metadata'[crawler_domain] = metadata[crawler_domain]
          /\ crawler_domain \notin DOMAIN metadata =>
                /\ MetaGet(metadata', crawler_domain, "successful") = 0
                /\ MetaGet(metadata', crawler_domain, "total") = 0
    /\ pc = "meta_successful" =>
          /\ DOMAIN metadata' = DOMAIN metadata
          /\ OtherRecordsUnchanged
          /\ MetaGet(metadata', crawler_domain, "successful")
                = MetaGet(metadata, crawler_domain, "successful")
                  + (IF successfull_crawl THEN 1 ELSE 0)
          /\ MetaGet(metadata', crawler_domain, "total")
                = MetaGet(metadata, crawler_domain, "total")
    /\ pc = "meta_total" =>
          /\ DOMAIN metadata' = DOMAIN metadata
          /\ OtherRecordsUnchanged
          /\ MetaGet(metadata', crawler_domain, "total")
                = MetaGet(metadata, crawler_domain, "total") + 1
          /\ MetaGet(metadata', crawler_domain, "successful")
                = MetaGet(metadata, crawler_domain, "successful")
    /\ pc \notin {"meta_init", "meta_successful", "meta_total"} =>
          metadata' = metadata

\* C12: the metrics update of a job changes only the record of the job's domain:
\* its total grows by exactly 1, its successful by 1 if the job succeeded and by 0
\* if it failed, a domain seen for the first time starts from 0/0, and the
\* records of all other domains are left as they were.  So between two jobs the
\* record of a domain counts the jobs of that domain and those that succeeded.
C12_UpdateTouchesOnlyJobDomain ==
    /\ [][MetricsStep]_vars
    /\ [](BetweenJobs =>
            /\ DOMAIN metadata = {Netloc(links[k]) : k \in 1..i}
            /\ \A d \in DOMAIN metadata :
                  /\ DOMAIN metadata[d] = {"successful", "total"}
                  /\ metadata[d]["total"] = AttemptsAt(d, {"ok", "raise"})
                  /\ metadata[d]["successful"] = AttemptsAt(d, {"ok"}))

C12_Witness ==
    /\ pc = "for"
    /\ i = 3
    /\ \E d \in DOMAIN metadata : \E e \in DOMAIN metadata :
          /\ d # e
          /\ metadata[d]["total"] = 2
          /\ metadata[d]["successful"] = 1
          /\ metadata[e]["total"] = 1
          /\ metadata[e]["successful"] = 0

InJob == pc \in {"get_crawler", "urlparse", "extract", "count", "meta_init",
                 "meta_successful", "meta_total"}

\* C13: links are processed in input order, and the resolution, the extraction
\* and the metrics update of a link are all complete before the resolution of
\* the next link begins: the job in progress is that of the i-th link of the
\* input, at most one job is begun and not yet accounted for, when a resolution
\* begins every earlier link has been extracted and counted, extraction starts
\* only on the resolved crawler, and the metrics update starts only after the
\* extraction of that link.
C13_StrictlySequential ==
    /\ InJob => i >= 1 /\ link = links[i]
    /\ i - MetaSum(metadata, "total") \in {0, 1}
    /\ BetweenJobs => MetaSum(metadata, "total") = i
    /\ \A k \in 1..Len(attempts) : attempts[k][1] = k
    /\ pc = "get_crawler" =>
          /\ Len(attempts) = i - 1
          /\ MetaSum(metadata, "total") = i - 1
          /\ \A d \in DOMAIN metadata : DOMAIN metadata[d] = {"successful", "total"}
    /\ pc \in {"urlparse", "extract"} =>
          /\ crawler = CrawlerType(link)
          /\ Len(attempts) = i - 1
    /\ pc = "extract" => crawler_domain = Netloc(link)
    /\ pc \in {"count", "meta_init", "meta_successful", "meta_total"} =>
          /\ Len(attempts) = i
          /\ crawler_domain = Netloc(links[i])
          /\ MetaSum(metadata, "total") = i - 1

C13_Witness ==
    /\ pc = "get_crawler"
    /\ i = 3
    /\ links[1] # links[2]
    /\ links[2] # links[3]
    /\ links[1] # links[3]
    /\ Len(attempts) = 2
    /\ MetaSum(metadata, "total") = 2

\* the number of extract() calls made for the k-th element of the input list
CallsFor(k) == Cardinality({n \in 1..Len(attempts) : attempts[n][1] = k})

\* C14: extract() is invoked exactly once per element of the input list, once
\* per occurrence for a link that appears several times, whether the invocation
\* succeeds or fails: no element is ever extracted twice, every element the loop
\* is done with has been extracted exactly once, and when the loop is left that
\* holds for every element of the list.
C14_NoRetries ==
    /\ \A k \in 1..Len(links) : CallsFor(k) <= 1
    /\ Len(attempts) <= Len(links)
    /\ BetweenJobs => \A k \in 1..i : CallsFor(k) = 1
    /\ pc \in {"emit", "return", "done"} => \A k \in 1..Len(links) : CallsFor(k) = 1

C14_Witness ==
    /\ pc = "done"
    /\ Len(links) = 3
    /\ links[1] = links[2]
    /\ attempts[1][2] = "raise"
    /\ attempts[2][2] = "ok"
    /\ attempts[3][2] = "raise"
    /\ \A k \in 1..3 : CallsFor(k) = 1

\* the payload handed to the run-metadata sink has an entry {successful, total},
\* with the final counter values, for exactly the domains of the input links
FinalPayload(p) ==
    /\ p = metadata
    /\ DOMAIN p = {Netloc(links[k]) : k \in 1..Len(links)}
    /\ \A d \in DOMAIN p :
          /\ DOMAIN p[d] = {"successful", "total"}
          /\ p[d]["total"] = AttemptsAt(d, {"ok", "raise"})
          /\ p[d]["successful"] = AttemptsAt(d, {"ok"})

\* a run that returns has handed the payload to the sink exactly once, after the
\* loop has processed every link and before it returns (holds of every run)
EmissionOnReturn ==
    /\ Len(output_metadata) <= 1
    /\ Len(output_metadata) = 1 <=> pc \in {"return", "done"}
    /\ Len(output_metadata) = 1 =>
          /\ i = Len(links)
          /\ Len(attempts) = Len(links)
          /\ FinalPayload(output_metadata[1])

\* C15: the metrics payload is handed to the run-metadata sink exactly once per
\* run, only after every link of the batch has been processed and before the run
\* returns, with an entry {successful, total} for exactly the domains of the
\* input links and the final counter values: every run that has ended has
\* emitted exactly one such payload.
C15_MetadataEmittedOncePerRun ==
    /\ EmissionOnReturn
    /\ pc \in {"done", "raised"} => Len(output_metadata) = 1

\* C16: after every processed job the overall success counter equals the sum of
\* successful over all domains of the metrics, and it never exceeds the number of
\* links processed so far.
C16_SuccessCounterMatchesMetrics ==
    /\ BetweenJobs => successfull_crawls = MetaSum(metadata, "successful")
    /\ BetweenJobs => successfull_crawls <= i
    /\ successfull_crawls <= Len(attempts)

C16_Witness ==
    /\ pc = "for"
    /\ i = 3
    /\ successfull_crawls = 2
    /\ HasOutcome("raise")
    /\ Cardinality(DOMAIN metadata) = 2
    /\ MetaSum(metadata, "successful") = 2

(***************************************************************************)
(* BaseSeleniumCrawler.scroll_page                                         *)
(*                                                                         *)
(* The driver is the environment: every execution of                       *)
(* "return document.body.scrollHeight" returns some height.  scroll_page   *)
(* only compares heights for equality, so a page that grows for ever is a  *)
(* page whose every reading differs from the one before it.  The two       *)
(* counters saturate at MaxCount, above every scroll_limit of the model,   *)
(* so the comparison with scroll_limit is the comparison of the program.   *)
(***************************************************************************)
Heights == {100 + 50 * k : k \in 0..(MaxHeightSteps - 1)}

ScrollLimits == 0..MaxScrollLimit

Saturating(n) == IF n < MaxCount THEN n + 1 ELSE n

Recorded(rs, h) == IF Len(rs) < MaxHist THEN Append(rs, h) ELSE rs

CrawlIdle ==
    /\ links = <<>>
    /\ pc = "idle"
    /\ i = 0
    /\ link = None
    /\ crawler = None
    /\ crawler_domain = None
    /\ successfull_crawl = FALSE
    /\ successfull_crawls = 0
    /\ metadata = EmptyDict
    /\ sessions = {}
    /\ tmpCount = 0
    /\ output_metadata = <<>>
    /\ crawled_links = <<>>
    /\ attempts = <<>>

\* a crawler constructed with scroll_limit, before scroll_page is called
ScrollInit ==
    /\ scroll_limit \in ScrollLimits
    /\ spc = "start"
    /\ current_scroll = 0
    /\ last_height = 0
    /\ new_height = 0
    /\ scrolls = 0
    /\ readings = <<>>
    /\ CrawlIdle

\* current_scroll = 0; last_height = execute_script("return document.body.scrollHeight")
ScrollStart ==
    /\ spc = "start"
    /\ current_scroll' = 0
    /\ \E h \in Heights :
          /\ last_height' = h
          /\ readings' = Recorded(readings, h)
    /\ spc' = "scroll"
    /\ UNCHANGED <<scroll_limit, new_height, scrolls>>
    /\ UNCHANGED crawlVars

\* while True: execute_script("window.scrollTo(0, document.body.scrollHeight);"); sleep(5)
ScrollToBottom ==
    /\ spc = "scroll"
    /\ scrolls' = Saturating(scrolls)
    /\ spc' = "read"
    /\ UNCHANGED <<scroll_limit, current_scroll, last_height, new_height, readings>>
    /\ UNCHANGED crawlVars

\* new_height = execute_script("return document.body.scrollHeight")
ReadHeight ==
    /\ spc = "read"
    /\ \E h \in Heights :
          /\ new_height' = h
          /\ readings' = Recorded(readings, h)
    /\ spc' = "check"
    /\ UNCHANGED <<scroll_limit, current_scroll, last_height, scrolls>>
    /\ UNCHANGED crawlVars

\* self.scroll_limit and current_scroll >= self.scroll_limit
LimitReached(limit, cs) == limit # 0 /\ cs >= limit

\* variant: the height comparison is left out
LimitOnly(nh, lh, limit, cs) == LimitReached(limit, cs)

\* new_height == last_height or (self.scroll_limit and current_scroll >= self.scroll_limit)
BreakCondition(nh, lh, limit, cs) == nh = lh \/ LimitReached(limit, cs)

\* if <condition>: break; last_height = new_height; current_scroll += 1
CheckBreak ==
    /\ spc = "check"
    /\ IF BreakCondition(new_height, last_height, scroll_limit, current_scroll)
       THEN /\ spc' = "done"
            /\ UNCHANGED <<last_height, current_scroll>>
       ELSE /\ last_height' = new_height
            /\ current_scroll' = Saturating(current_scroll)
            /\ spc' = "scroll"
    /\ UNCHANGED <<scroll_limit, new_height, scrolls, readings>>
    /\ UNCHANGED crawlVars

ScrollNext ==
    \/ ScrollStart
    \/ ScrollToBottom
    \/ ReadHeight
    \/ CheckBreak

ScrollSpec == ScrollInit /\ [][ScrollNext]_vars

\* scroll_page runs on the one thread of the step, which is never suspended for ever
FairScrollSpec == ScrollSpec /\ WF_vars(ScrollNext)

ScrollTypeOK ==
    /\ scroll_limit \in ScrollLimits
    /\ spc \in {"start", "scroll", "read", "check", "done"}
    /\ current_scroll \in 0..MaxCount
    /\ scrolls \in 0..MaxCount
    /\ Len(readings) <= MaxHist

(***************************************************************************)
(* Properties of scroll_page                                               *)
(***************************************************************************)
IsPrefix(s, t) == Len(s) <= Len(t) /\ s = SubSeq(t, 1, Len(s))

\* the readings that a check of the loop has compared with the one before
\* and found different (the first reading is compared with nothing)
Passed == IF spc \in {"check", "done"} THEN Len(readings) - 1 ELSE Len(readings)

\* C6: scroll_page stops at the first height reading that equals the reading
\* before it and issues no scroll command afterwards (every reading it went on
\* from differed from the one before it, and nothing happens after the stop);
\* on the readings 100, 150, 150 with the default limit 5 it issues exactly 2
\* scroll commands and stops on the stable height, the limit not being reached.
C6_StopsWhenStable ==
    /\ \A k \in 2..Passed : readings[k] # readings[k - 1]
    /\ spc = "done" => ~ENABLED ScrollNext
    /\ (spc = "done" /\ new_height = last_height /\ Len(readings) < MaxHist)
          => scrolls = Len(readings) - 1
    /\ (scroll_limit = DefaultScrollLimit /\ spc = "done"
          /\ IsPrefix(readings, <<100, 150, 150>>))
          => /\ readings = <<100, 150, 150>>
             /\ scrolls = 2
             /\ new_height = last_height
             /\ ~LimitReached(scroll_limit, current_scroll)
    /\ (scroll_limit = DefaultScrollLimit /\ Len(readings) >= 3
          /\ SubSeq(readings, 1, 3) = <<100, 150, 150>>)
          => Len(readings) = 3 /\ spc \in {"check", "done"}

C6_Witness ==
    /\ spc = "done"
    /\ scroll_limit = DefaultScrollLimit
    /\ readings = <<100, 150, 150>>
    /\ scrolls = 2

\* C7: with a scroll_limit L >= 1 and a page whose height differs from the
\* previous reading at every check (the loop stopped on a reading that still
\* differed), scroll_page has issued exactly L scroll-to-bottom commands.
C7_ExactlyLimitScrolls ==
    (spc = "done" /\ scroll_limit >= 1 /\ new_height # last_height)
        => scrolls = scroll_limit

\* C8: with scroll_limit = 0, scroll_page issues no scroll-to-bottom command,
\* whatever the page does.
C8_ZeroLimitNoScroll ==
    scroll_limit = 0 => scrolls = 0

\* C9: for every scroll_limit >= 0 and every sequence of page heights,
\* scroll_page eventually terminates.
C9_ScrollTerminates == <>(spc = "done")

====
